---- MODULE Spec2Model ----
(***************************************************************************)
(* A model of lib/response.js (bbop-response-golr): the GOlr response      *)
(* object, its lazily built document index, its label-map cache, the       *)
(* highlight matcher, the fq decoder and the facet flattener.              *)
(*                                                                         *)
(* JavaScript values are tagged records: [t |-> "null"],                   *)
(* [t |-> "undefined"], [t |-> "string", s |-> ...], [t |-> "array",       *)
(* v |-> <<...>>], [t |-> "obj", m |-> function].  A document is referred  *)
(* to by its zero-based position (object identity).  Property keys are     *)
(* strings, so a position used as a key is its decimal numeral.  Objects   *)
(* used as maps hold own data properties only: keys naming inherited       *)
(* properties ("constructor", "length", ...) are outside the input sets.   *)
(* Text that the code inspects character by character (highlight           *)
(* fragments, fq entries, facet values) is a sequence of one-character     *)
(* strings.                                                                *)
(***************************************************************************)
EXTENDS Integers, Sequences, FiniteSets, TLC

VARIABLES
  docs,            \* _raw.response.docs
  highlighting,    \* _raw.highlighting
  facet_fields,    \* _raw.facet_counts.facet_fields
  fq,              \* _raw.responseHeader.params.fq
  envelope,        \* the sections of _raw that success() tests
  success_cache,   \* this._success
  doc_id2index,    \* this._doc_id2index
  doc_index2_id,   \* this._doc_index2_id  (the field the constructor sets)
  doc_index2id,    \* this._doc_index2id   (the field the methods use)
  doc_label_maps,  \* this._doc_label_maps
  op, args, ret,   \* the last call: its name, its arguments, its outcome
  hilite_obj,      \* local hilite_obj of the last get_doc_highlight call
  scans,           \* number of times the index-building loop has run
  decodes          \* <<position, map field>> -> number of completed JSON.parse calls

vars == <<docs, highlighting, facet_fields, fq, envelope, success_cache, doc_id2index,
          doc_index2_id, doc_index2id, doc_label_maps, op, args, ret, hilite_obj,
          scans, decodes>>

raw == <<docs, highlighting, facet_fields, fq, envelope>>

----------------------------------------------------------------------------
(* Bounds of the model *)

MaxDocs == 2

MaxFragLen == 3

MaxFqLen == 4

MaxFqEntries == 2

MaxFacetPairs == 2

----------------------------------------------------------------------------
(* JavaScript values *)

Null == [t |-> "null"]

Undefined == [t |-> "undefined"]

Str(s) == [t |-> "string", s |-> s]

\* a string held as its sequence of characters
Txt(s) == [t |-> "text", c |-> s]

Arr(s) == [t |-> "array", v |-> s]

Obj(m) == [t |-> "obj", m |-> m]

DocRef(i) == [t |-> "doc", pos |-> i]

Throw(e) == [t |-> "throw", err |-> e]

EmptyMap == [k \in {} |-> Null]

\* ToBoolean for the values the code tests: null, undefined and "" are falsy
Truthy(v) ==
  /\ v.t \notin {"null", "undefined"}
  /\ ~(v.t = "string" /\ v.s = "")
  /\ ~(v.t = "text" /\ v.c = <<>>)

\* o[k] for an object used as a map
Get(o, k) == IF o.t = "obj" /\ k \in DOMAIN o.m THEN o.m[k] ELSE Undefined

\* typeof(o[k]) !== 'undefined'
Has(o, k) == o.t = "obj" /\ k \in DOMAIN o.m

\* o[k] = v
Put(m, k, v) == [x \in DOMAIN m \cup {k} |-> IF x = k THEN v ELSE m[x]]

Numerals == <<"0", "1", "2", "3", "4", "5">>

\* ToString of an array index
PosStr(i) == Numerals[i + 1]

\* docs[key]: an array is indexed by the canonical numeral of a position
ArrayGet(key) ==
  IF \E i \in 0 .. Len(docs) - 1 : PosStr(i) = key
  THEN DocRef(CHOOSE i \in 0 .. Len(docs) - 1 : PosStr(i) = key)
  ELSE Undefined

\* doc[field_id]
DocField(pos, field_id) ==
  IF field_id \in DOMAIN docs[pos + 1] THEN docs[pos + 1][field_id] ELSE Undefined

----------------------------------------------------------------------------
(* The document index: get_doc and get_doc_field.  The index fields and the *)
(* scan counter travel together as a record ix.                             *)

Ix == [id2index |-> doc_id2index, index2id |-> doc_index2id, scans |-> scans]

RECURSIVE BuildFrom(_, _, _)
BuildFrom(i, id2, ix2) ==
  IF i >= Len(docs)
  THEN [id2index |-> Obj(id2), index2id |-> Obj(ix2)]
  ELSE LET did == docs[i + 1].id
       IN BuildFrom(i + 1, Put(id2, did, i), Put(ix2, PosStr(i), did))

BuildAlways(ix) ==
  LET b == BuildFrom(0, EmptyMap, EmptyMap)
  IN [id2index |-> b.id2index, index2id |-> b.index2id, scans |-> ix.scans + 1]

\* the "Build the doc index if it isn't there" block
BuildIfMissing(ix) ==
  IF ~Truthy(ix.id2index)
  THEN LET b == BuildFrom(0, EmptyMap, EmptyMap)
       IN [id2index |-> b.id2index, index2id |-> b.index2id, scans |-> ix.scans + 1]
  ELSE ix

get_doc_idfirst(ix, doc_id) ==
  LET built == BuildIfMissing(ix)
  IN IF Has(built.id2index, doc_id)
     THEN [ret |-> DocRef(built.id2index.m[doc_id]), ix |-> built]
     ELSE [ret |-> IF Truthy(ArrayGet(doc_id)) THEN ArrayGet(doc_id) ELSE Null,
           ix |-> built]

get_doc(ix, doc_id) ==
  IF Truthy(ArrayGet(doc_id))
  THEN [ret |-> ArrayGet(doc_id), ix |-> ix]
  ELSE LET built == BuildIfMissing(ix)
       IN IF Truthy(built.id2index) /\ Has(built.id2index, doc_id)
          THEN [ret |-> ArrayGet(PosStr(built.id2index.m[doc_id])), ix |-> built]
          ELSE [ret |-> Null, ix |-> built]

get_doc_field(ix, doc_id, field_id) ==
  LET d == get_doc(ix, doc_id)
  IN IF Truthy(d.ret) /\ DocField(d.ret.pos, field_id) # Undefined
     THEN [ret |-> DocField(d.ret.pos, field_id), ix |-> d.ix]
     ELSE [ret |-> Null, ix |-> d.ix]

----------------------------------------------------------------------------
(* Highlights: get_doc_highlight *)

\* an.replace(/<[^>]*>/g, ''): at a "<" that has a ">" after it, the match runs
\* to the first such ">"; any other character is kept
RECURSIVE HlReplace(_)
HlReplace(s) ==
  IF s = <<>> THEN <<>>
  ELSE IF Head(s) = "<" /\ \E k \in 2 .. Len(s) : s[k] = ">"
       THEN LET k == CHOOSE k \in 2 .. Len(s) :
                       s[k] = ">" /\ \A j \in 2 .. k - 1 : s[j] # ">"
            IN HlReplace(SubSeq(s, k + 1, Len(s)))
       ELSE <<Head(s)>> \o HlReplace(Tail(s))

\* hilite_obj[key]: a fragment list when the key is there
EntryGet(h, key) == IF key \in DOMAIN h.m THEN Arr(h.m[key]) ELSE Undefined

\* the four "if( ! ans )" probes
HlProbe(h, field_id) ==
  LET a1 == IF Truthy(EntryGet(h, field_id \o "_label_searchable"))
            THEN EntryGet(h, field_id \o "_label_searchable") ELSE Null
      a2 == IF ~Truthy(a1) /\ Truthy(EntryGet(h, field_id \o "_label"))
            THEN EntryGet(h, field_id \o "_label") ELSE a1
      a3 == IF ~Truthy(a2) /\ Truthy(EntryGet(h, field_id \o "_searchable"))
            THEN EntryGet(h, field_id \o "_searchable") ELSE a2
      a4 == IF ~Truthy(a3) /\ Truthy(EntryGet(h, field_id))
            THEN EntryGet(h, field_id) ELSE a3
  IN a4

\* the last matching fragment wins
RECURSIVE HlEachLast(_, _, _, _)
HlEachLast(ans, i, item, st) ==
  IF i > Len(ans) THEN st
  ELSE HlEachLast(ans, i + 1, item,
                  IF item = HlReplace(ans[i])
                  THEN [matches_p |-> TRUE, ret |-> Txt(ans[i])]
                  ELSE st)

\* us.each(ans, ...) with the matches_p flag: st = [matches_p, ret]
RECURSIVE HlEach(_, _, _, _)
HlEach(ans, i, item, st) ==
  IF i > Len(ans) THEN st
  ELSE HlEach(ans, i + 1, item,
              IF ~st.matches_p /\ item = HlReplace(ans[i])
              THEN [matches_p |-> TRUE, ret |-> Txt(ans[i])]
              ELSE st)

\* lines 635-680: from the highlight object to the return value
HlMatch(h, field_id, item) ==
  IF Truthy(h)
  THEN LET ans == HlProbe(h, field_id)
       IN IF Truthy(ans)
          THEN HlEach(ans.v, 1, item, [matches_p |-> FALSE, ret |-> Null]).ret
          ELSE Null
  ELSE Null

\* lines 618-630: the highlight object of the document
HlResolve(ix, doc_id) ==
  IF Truthy(highlighting) /\ Truthy(Get(highlighting, doc_id))
  THEN [thrown |-> FALSE, h |-> Get(highlighting, doc_id), ix |-> ix]
  ELSE IF ix.index2id.t # "obj"
       THEN [thrown |-> TRUE, h |-> Null, ix |-> ix]       \* undefined[doc_id]
       ELSE IF Has(ix.index2id, doc_id) /\ ix.index2id.m[doc_id] # ""
               THEN LET iid == ix.index2id.m[doc_id]
                        nd == get_doc(ix, iid)
                    IN IF ~Truthy(nd.ret)
                       THEN [thrown |-> TRUE, h |-> Null, ix |-> nd.ix]  \* null['id']
                       ELSE LET new_doc_id == docs[nd.ret.pos + 1].id
                            IN [thrown |-> FALSE,
                                h |-> IF Truthy(highlighting)
                                         /\ Truthy(Get(highlighting, new_doc_id))
                                      THEN Get(highlighting, new_doc_id) ELSE Null,
                                ix |-> nd.ix]
               ELSE [thrown |-> FALSE, h |-> Null, ix |-> ix]

get_doc_highlight(ix, doc_id, field_id, item) ==
  LET r == HlResolve(ix, doc_id)
  IN IF r.thrown
     THEN [ret |-> Throw("TypeError"), h |-> r.h, ix |-> r.ix]
     ELSE [ret |-> HlMatch(r.h, field_id, item), h |-> r.h, ix |-> r.ix]

----------------------------------------------------------------------------
(* Labels: get_doc_label and its _map_to_try.  A map field holds JSON text, *)
(* modelled as its token sequence: "{", "}", ":", "," and string literals.  *)

JsonPunct == {"{", "}", ":", ","}

RECURSIVE JsonMembers(_, _, _)
JsonMembers(toks, i, acc) ==
  IF /\ i + 3 <= Len(toks)
     /\ toks[i] \notin JsonPunct
     /\ toks[i + 1] = ":"
     /\ toks[i + 2] \notin JsonPunct
  THEN IF toks[i + 3] = "}" /\ i + 3 = Len(toks)
       THEN [ok |-> TRUE, v |-> Put(acc, toks[i], toks[i + 2])]
       ELSE IF toks[i + 3] = ","
            THEN JsonMembers(toks, i + 4, Put(acc, toks[i], toks[i + 2]))
            ELSE [ok |-> FALSE, v |-> EmptyMap]
  ELSE [ok |-> FALSE, v |-> EmptyMap]

\* JSON.parse of an object of strings; ok = FALSE is the SyntaxError
JSONparse(toks) ==
  IF toks = <<"{", "}">> THEN [ok |-> TRUE, v |-> EmptyMap]
  ELSE IF Len(toks) >= 1 /\ toks[1] = "{" THEN JsonMembers(toks, 2, EmptyMap)
       ELSE [ok |-> FALSE, v |-> EmptyMap]

St == [ix |-> Ix, maps |-> doc_label_maps, decodes |-> decodes]

Bump(f, k) == Put(f, k, IF k \in DOMAIN f THEN f[k] + 1 ELSE 1)

\* the cache is keyed by the map field alone
CacheKeyShared(doc_key) == "*"

\* the first key of this._doc_label_maps: the doc_key argument as passed
CacheKey(doc_key) == doc_key

\* lines 531-554: the body of _map_to_try once map_str is read; g is the
\* outcome of get_doc_field(doc_key, map_field), pos the document's position
MapToTryOn(st, g, pos, ck, map_field, item_key) ==
  IF Truthy(g.ret) /\ g.ret.t = "text"
  THEN LET m1 == IF ck \notin DOMAIN st.maps
                 THEN Put(st.maps, ck, EmptyMap) ELSE st.maps
           miss == map_field \notin DOMAIN m1[ck]
           parsed == JSONparse(g.ret.c)
       IN IF miss /\ ~parsed.ok
          THEN [thrown |-> TRUE, retlbl |-> Null,
                st |-> [ix |-> g.ix, maps |-> m1, decodes |-> st.decodes]]
          ELSE LET m2 == IF miss
                         THEN Put(m1, ck, Put(m1[ck], map_field, parsed.v))
                         ELSE m1
                   dc == IF miss
                         THEN Bump(st.decodes, <<pos, map_field>>)
                         ELSE st.decodes
                   map == m2[ck][map_field]
               IN [thrown |-> FALSE,
                   retlbl |-> IF item_key \in DOMAIN map /\ map[item_key] # ""
                              THEN Str(map[item_key]) ELSE Null,
                   st |-> [ix |-> g.ix, maps |-> m2, decodes |-> dc]]
  ELSE [thrown |-> FALSE, retlbl |-> Null,
        st |-> [ix |-> g.ix, maps |-> st.maps, decodes |-> st.decodes]]

\* lines 525-555
map_to_try(st, doc_key, map_field, item_key) ==
  MapToTryOn(st, get_doc_field(st.ix, doc_key, map_field),
             get_doc(st.ix, doc_key).ret.pos, CacheKey(doc_key), map_field, item_key)

\* the map fields in the order of lines 560, 568 and 576
MapSuffixes == <<"_map", "_closure_map", "_list_map">>

\* lines 557-582: _map, then _closure_map, then _list_map; probe_maps tries
\* the k-th map and probe_next goes on from its outcome m
RECURSIVE probe_maps(_, _, _, _, _)
RECURSIVE probe_next(_, _, _, _, _)
probe_next(m, k, doc_id, field_id, item_id) ==
  IF m.thrown THEN [ret |-> Throw("SyntaxError"), st |-> m.st]
  ELSE IF Truthy(m.retlbl) THEN [ret |-> m.retlbl, st |-> m.st]
       ELSE probe_maps(m.st, k + 1, doc_id, field_id, item_id)

probe_maps(st, k, doc_id, field_id, item_id) ==
  IF k > Len(MapSuffixes) THEN [ret |-> Null, st |-> st]
  ELSE probe_next(map_to_try(st, doc_id, field_id \o MapSuffixes[k], item_id),
                  k, doc_id, field_id, item_id)

WithIx(st, ix) == [ix |-> ix, maps |-> st.maps, decodes |-> st.decodes]

\* lines 501-584: from the _label field l and the field itself i
LabelFrom(st, l, i, doc_id, field_id, item_id) ==
  IF Truthy(l.ret) /\ l.ret.t = "string"
  THEN [ret |-> l.ret, st |-> WithIx(st, l.ix)]
  ELSE IF Truthy(l.ret) /\ l.ret.t = "array"
       THEN IF /\ Len(l.ret.v) = 1
               /\ Truthy(i.ret)
               /\ i.ret.t = "array"
               /\ Len(i.ret.v) = 1
            THEN [ret |-> Str(l.ret.v[1]), st |-> WithIx(st, i.ix)]
            ELSE probe_maps(WithIx(st, i.ix), 1, doc_id, field_id, item_id)
       ELSE [ret |-> Null, st |-> WithIx(st, l.ix)]

\* lines 497-498: d is the outcome of this.get_doc(doc_id)
LabelOf(st, d, doc_id, field_id, item_id) ==
  IF Truthy(d.ret) /\ DocField(d.ret.pos, field_id) # Undefined
  THEN LabelFrom(st, get_doc_field(d.ix, doc_id, field_id \o "_label"),
                 get_doc_field(get_doc_field(d.ix, doc_id, field_id \o "_label").ix,
                               doc_id, field_id),
                 doc_id, field_id, item_id)
  ELSE [ret |-> Null, st |-> WithIx(st, d.ix)]

\* lines 489-588
get_doc_label(st, doc_id, field_id, item_id) ==
  LabelOf(st, get_doc(st.ix, doc_id), doc_id, field_id, item_id)

----------------------------------------------------------------------------
(* Filters: parameter and query_filters.  An fq entry is a character        *)
(* sequence.                                                                *)

\* lines 186-193: a falsy value counts as absent
parameter(v) == IF Truthy(v) THEN v ELSE Null

\* fq_item.split(":")
RECURSIVE StrSplit(_)
StrSplit(s) ==
  IF \E i \in 1 .. Len(s) : s[i] = ":"
  THEN LET i == CHOOSE i \in 1 .. Len(s) : s[i] = ":" /\ \A j \in 1 .. i - 1 : s[j] # ":"
       IN <<SubSeq(s, 1, i - 1)>> \o StrSplit(SubSeq(s, i + 1, Len(s)))
  ELSE <<s>>

\* splits.join(":")
RECURSIVE StrJoin(_)
StrJoin(parts) ==
  IF parts = <<>> THEN <<>>
  ELSE IF Len(parts) = 1 THEN parts[1]
       ELSE parts[1] \o <<":">> \o StrJoin(Tail(parts))

\* s.charAt(i): "" (here <<>>) outside the string
CharAt(s, i) == IF i >= 0 /\ i < Len(s) THEN <<s[i + 1]>> ELSE <<>>

Clamp(n, len) == IF n < 0 THEN 0 ELSE IF n > len THEN len ELSE n

\* s.substring(a, b): both ends clamped, and swapped when a > b
Substring(s, a, b) ==
  LET x == Clamp(a, Len(s))
      y == Clamp(b, Len(s))
  IN IF x <= y THEN SubSeq(s, x + 1, y) ELSE SubSeq(s, y + 1, x)

\* the value is the first piece after the field only
FqValueFirstPiece(splits) == IF Len(splits) >= 2 THEN splits[2] ELSE <<>>

\* lines 834-835: splits.shift(), then the rest joined again
FqValue(splits) == StrJoin(Tail(splits))

\* lines 833-865: one fq entry written into ret_hash
FqItem(ret_hash, fq_item) ==
  LET splits == StrSplit(fq_item)
      field0 == Head(splits)
      value0 == FqValue(splits)
      polarity == CharAt(field0, 0) # <<"-">>
      field == IF CharAt(field0, 0) = <<"-">> \/ CharAt(field0, 0) = <<"+">>
               THEN Substring(field0, 1, Len(field0)) ELSE field0
      h1 == IF field \notin DOMAIN ret_hash
            THEN Put(ret_hash, field, EmptyMap) ELSE ret_hash
      value == IF CharAt(value0, 0) = <<"\"">> /\ CharAt(value0, Len(value0) - 1) = <<"\"">>
               THEN Substring(value0, 1, Len(value0) - 1) ELSE value0
  IN Put(h1, field, Put(h1[field], value, polarity))

RECURSIVE FqEach(_, _, _)
FqEach(list, i, ret_hash) ==
  IF i > Len(list) THEN ret_hash
  ELSE FqEach(list, i + 1, FqItem(ret_hash, list[i]))

\* lines 814-871
query_filters ==
  LET fq_list == parameter(fq)
  IN IF Truthy(fq_list)
     THEN Obj(FqEach(IF fq_list.t = "text" THEN <<fq_list.c>> ELSE fq_list.v,
                     1, EmptyMap))
     ELSE Obj(EmptyMap)

----------------------------------------------------------------------------
(* Facets: facet_field_list, facet_field and facet_counts.  A facet item is *)
(* a string, a number, or a nested list.                                    *)

Num(n) == [t |-> "number", n |-> n]

\* item[i]
ItemAt(item, i) ==
  IF item.t = "array" /\ i < Len(item.v) THEN item.v[i + 1]
  ELSE IF item.t = "text" /\ i < Len(item.c) THEN Txt(<<item.c[i + 1]>>)
       ELSE Undefined

\* the property key a value turns into
ToKey(v) ==
  IF v.t = "text" THEN v.c
  ELSE IF v.t = "number" THEN <<PosStr(v.n)>>
       ELSE <<"u", "n", "d", "e", "f", "i", "n", "e", "d">>

\* a value already in the hash keeps its count
RECURSIVE FacetEachFirst(_, _, _)
FacetEachFirst(items, i, h) ==
  IF i > Len(items) THEN h
  ELSE FacetEachFirst(items, i + 1,
                      IF ToKey(ItemAt(items[i], 0)) \in DOMAIN h THEN h
                      ELSE Put(h, ToKey(ItemAt(items[i], 0)), ItemAt(items[i], 1)))

\* lines 763-767: name = item[0]; count = item[1]
RECURSIVE FacetEach(_, _, _)
FacetEach(items, i, h) ==
  IF i > Len(items) THEN h
  ELSE FacetEach(items, i + 1, Put(h, ToKey(ItemAt(items[i], 0)), ItemAt(items[i], 1)))

\* lines 712-715 (the order of the names does not show in the result)
facet_field_list == DOMAIN facet_fields.m

\* lines 730-733
facet_field(facet_name) == facet_fields.m[facet_name]

\* lines 747-771
facet_counts ==
  Obj([ffield \in facet_field_list |-> Obj(FacetEach(facet_field(ffield), 1, EmptyMap))])

----------------------------------------------------------------------------
(* success.  envelope holds the sections of _raw that success() tests:      *)
(* responseHeader, response and facet_counts, each undefined or an object.  *)
(* Under "params", "docs" and "facet_fields" it holds only whether the      *)
(* section is there; what the section contains is in fq, docs and           *)
(* facet_fields.                                                            *)

Bool(b) == [t |-> "bool", b |-> b]

\* typeof o[k] !== 'undefined'
Defined(o, k) == Get(o, k).t # "undefined"

\* any status passes, as long as there is one
LooksSaneAnyStatus(robj) ==
  /\ Truthy(robj.responseHeader)
  /\ Defined(robj.responseHeader, "status")
  /\ Truthy(Get(robj.responseHeader, "params"))
  /\ Truthy(robj.response)
  /\ Defined(robj.response, "numFound")
  /\ Defined(robj.response, "start")
  /\ Defined(robj.response, "maxScore")
  /\ Truthy(Get(robj.response, "docs"))
  /\ Truthy(robj.facet_counts)
  /\ Truthy(Get(robj.facet_counts, "facet_fields"))

\* lines 96-107: the test on robj
LooksSane(robj) ==
  /\ Truthy(robj.responseHeader)
  /\ Defined(robj.responseHeader, "status")
  /\ Get(robj.responseHeader, "status") = Num(0)
  /\ Truthy(Get(robj.responseHeader, "params"))
  /\ Truthy(robj.response)
  /\ Defined(robj.response, "numFound")
  /\ Defined(robj.response, "start")
  /\ Defined(robj.response, "maxScore")
  /\ Truthy(Get(robj.response, "docs"))
  /\ Truthy(robj.facet_counts)
  /\ Truthy(Get(robj.facet_counts, "facet_fields"))

\* lines 91-115; cache is this._success
success(cache) ==
  IF cache = Null
  THEN [ret |-> Bool(LooksSane(envelope)), cache |-> Bool(LooksSane(envelope))]
  ELSE [ret |-> cache, cache |-> cache]

----------------------------------------------------------------------------
(* Inputs *)

DocIds == {"0", "1", "a"}

\* arguments used as document keys: every position up to one past the end,
\* every identifier, and an identifier no document has
DocKeys == {PosStr(i) : i \in 0 .. MaxDocs} \cup DocIds \cup {"zz"}

Fields == {"f", "g"}

PlainDocs == [id : DocIds]

SeqsUpTo(S, n) == UNION {[1 .. k -> S] : k \in 0 .. n}

\* the highlight object stored under document identifier k
KeyEntry(k) == Obj([x \in {"f"} |-> << <<k>> >>])

KeyedHighlighting ==
  {Undefined} \cup {Obj([k \in S |-> KeyEntry(k)]) : S \in SUBSET DocIds}

KeyItems == {<<k>> : k \in DocIds}

LabelItems == {"a", "b"}

Fld(name, val) == IF val = Undefined THEN EmptyMap ELSE [x \in {name} |-> val]

\* the field and its _label: no label, one string, or a list of labels, against
\* one or two identifiers
LabelShapes ==
  {<<Arr(<<"a">>), Undefined>>,
   <<Arr(<<"a">>), Str("La")>>,
   <<Arr(<<"a">>), Arr(<<"La">>)>>,
   <<Arr(<<"a">>), Arr(<<"La", "Lb">>)>>,
   <<Arr(<<"a", "b">>), Arr(<<"La">>)>>}

\* JSON texts of a map field: absent, empty text, well formed, cut short
MapTexts ==
  {Undefined, Txt(<<>>), Txt(<<"{", "a", ":", "M", "}">>), Txt(<<"{", "a", ":", "M">>)}

ClosureMapTexts ==
  {Undefined, Txt(<<"{", "a", ":", "C", ",", "b", ":", "Cb", "}">>),
   Txt(<<"{", "a", "C", "}">>)}

ListMapTexts ==
  {Undefined, Txt(<<"{", "a", ":", "L", ",", "b", ":", "Lb", "}">>), Txt(<<"a", ":", "L">>)}

LabelDoc(id, shape, m, c, l) ==
  [x \in {"id"} |-> id] @@ Fld("f", shape[1]) @@ Fld("f_label", shape[2])
    @@ Fld("f_map", m) @@ Fld("f_closure_map", c) @@ Fld("f_list_map", l)

LabelDocs ==
  {LabelDoc(id, shape, m, c, l) :
     id \in {"1", "a"}, shape \in LabelShapes,
     m \in MapTexts, c \in ClosureMapTexts, l \in ListMapTexts}

\* one document with label data at any place of the list, the others plain
LabelDocLists ==
  {[i \in 1 .. n |-> IF i = r THEN d ELSE [id |-> "0"]] :
     n \in 1 .. MaxDocs, r \in 1 .. MaxDocs, d \in LabelDocs}

\* highlight fragments and items: text over a tag alphabet
HlAlphabet == {"<", ">", "x"}

Frags == SeqsUpTo(HlAlphabet, MaxFragLen)

\* fragments that read "x" once their tags are gone
TaggedX == {<<"x">>, <<"<", ">", "x">>, <<"x", "<", ">">>}

\* no fragment, one fragment, or two with one of them reading "x"
FragLists ==
  {<<>>} \cup {<<a>> : a \in Frags}
    \cup {<<a, b>> : a \in Frags, b \in TaggedX}
    \cup {<<b, a>> : a \in Frags, b \in TaggedX}

HlItems == SeqsUpTo(HlAlphabet, MaxFragLen - 2)

HlKeysOf(field_id) ==
  {field_id \o "_label_searchable", field_id \o "_label", field_id \o "_searchable", field_id}

ProbeLists == {<<>>, << <<"x">> >>, << <<"<", ">", "x">> >>, << <<"x", "<", ">">> >>}

\* one key with any fragment list, or any keys with a few lists
HlEntries ==
  {[k \in {"f"} |-> l] : l \in FragLists}
    \cup UNION {[K -> ProbeLists] : K \in SUBSET HlKeysOf("f")}

\* fq: absent, one string, or a list of strings
FqAlphabet == {":", "-", "+", "\"", "a"}

FqStrings == SeqsUpTo(FqAlphabet, MaxFqLen)

FqSamples ==
  {<<>>, <<"a">>, <<"-", "a">>, <<"a", ":", "a">>, <<"-", "a", ":", "a">>,
   <<"+", "a", ":", "a">>, <<"a", ":", "\"", "a", "\"">>, <<"a", ":", "a", ":", "a">>,
   <<"-", "a", ":", "\"", "a", ":", "a", "\"">>}

FqValues ==
  {Undefined} \cup {Txt(e) : e \in FqStrings}
    \cup {Arr(l) : l \in SeqsUpTo(FqSamples, MaxFqEntries)}

\* facet fields: flat value, count, value, count lists and nested pair lists
FacetNames == {<<"b", "p">>, <<"m", "f">>}

FacetNumbers == {1, 2}

FacetPairs == {<<Txt(n), Num(c)>> : n \in FacetNames, c \in FacetNumbers}

RECURSIVE Flatten(_)
Flatten(pairs) ==
  IF pairs = <<>> THEN <<>> ELSE Head(pairs) \o Flatten(Tail(pairs))

FlatLists == {Flatten(l) : l \in SeqsUpTo(FacetPairs, MaxFacetPairs)}

NestedLists == {[i \in DOMAIN l |-> Arr(l[i])] : l \in SeqsUpTo(FacetPairs, MaxFacetPairs)}

FacetFieldNames == {"go_aspect", "taxon"}

FacetValues ==
  UNION {[K -> FlatLists \cup NestedLists] : K \in SUBSET FacetFieldNames}

\* a section that is there; its content is in docs, facet_fields or fq
Section == Obj(EmptyMap)

Headers ==
  {Undefined} \cup
  {Obj(Fld("status", st) @@ Fld("params", pa)) :
     st \in {Undefined, Null, Num(0), Num(1)}, pa \in {Undefined, Null, Section}}

Responses ==
  {Undefined} \cup
  {Obj(Fld("numFound", nf) @@ Fld("start", sta) @@ Fld("maxScore", ms) @@ Fld("docs", d)) :
     nf \in {Undefined, Null, Num(1)}, sta \in {Undefined, Num(0)},
     ms \in {Undefined, Num(1)}, d \in {Undefined, Null, Section}}

FacetSections ==
  {Undefined, Obj(EmptyMap), Obj(Fld("facet_fields", Null)), Obj(Fld("facet_fields", Section))}

Envelopes == [responseHeader : Headers, response : Responses, facet_counts : FacetSections]

\* the envelope of an answer with every section in place
SaneEnvelope ==
  [responseHeader |-> Obj(Fld("status", Num(0)) @@ Fld("params", Section)),
   response |-> Obj(Fld("numFound", Num(1)) @@ Fld("start", Num(0))
                    @@ Fld("maxScore", Num(1)) @@ Fld("docs", Section)),
   facet_counts |-> Obj(Fld("facet_fields", Section))]

----------------------------------------------------------------------------
(* The object after construction (lines 32-60) *)

Constructed ==
  /\ success_cache = Null
  /\ doc_id2index = Null
  /\ doc_index2_id = Null
  /\ doc_index2id = Undefined
  /\ doc_label_maps = EmptyMap
  /\ op = "new"
  /\ args = Null
  /\ ret = Undefined
  /\ hilite_obj = Null
  /\ scans = 0
  /\ decodes = EmptyMap

Init ==
  /\ docs \in SeqsUpTo(PlainDocs, MaxDocs)
  /\ highlighting \in KeyedHighlighting
  /\ facet_fields = Obj(EmptyMap)
  /\ fq = Undefined
  /\ envelope = SaneEnvelope
  /\ Constructed

InitLabel ==
  /\ docs \in {l \in LabelDocLists : \E i \in DOMAIN l : "f" \in DOMAIN l[i]}
  /\ highlighting = Obj([k \in {"a"} |-> KeyEntry(k)])
  /\ facet_fields = Obj(EmptyMap)
  /\ fq = Undefined
  /\ envelope = SaneEnvelope
  /\ Constructed

InitHighlight ==
  /\ docs = <<[id |-> "a"]>>
  /\ highlighting \in {Obj([k \in {"a"} |-> Obj(e)]) : e \in HlEntries}
  /\ facet_fields = Obj(EmptyMap)
  /\ fq = Undefined
  /\ envelope = SaneEnvelope
  /\ Constructed

InitFilters ==
  /\ docs = <<>>
  /\ highlighting = Undefined
  /\ facet_fields = Obj(EmptyMap)
  /\ fq \in FqValues
  /\ envelope = SaneEnvelope
  /\ Constructed

InitFacets ==
  /\ docs = <<>>
  /\ highlighting = Undefined
  /\ facet_fields \in {Obj(m) : m \in FacetValues}
  /\ fq = Undefined
  /\ envelope = SaneEnvelope
  /\ Constructed

\* two documents with label maps of their own; the identifier of each may
\* read as the position of the other
CacheDocLists ==
  {<<LabelDoc(i1, <<Arr(<<"a", "b">>), Arr(<<"La">>)>>, m1, c1, Undefined),
     LabelDoc(i2, <<Arr(<<"a", "b">>), Arr(<<"La">>)>>, m2, c2, Undefined)>> :
     i1 \in {"1", "a"}, i2 \in {"0", "b"},
     m1 \in MapTexts, m2 \in {Undefined, Txt(<<"{", "a", ":", "N", "}">>), Txt(<<"{", "a", ":", "N">>)},
     c1 \in {Undefined, Txt(<<"{", "a", ":", "C", ",", "b", ":", "Cb", "}">>)},
     c2 \in {Undefined, Txt(<<"{", "b", ":", "D", "}">>)}}

InitCache ==
  /\ docs \in CacheDocLists
  /\ highlighting = Obj([k \in {"a"} |-> KeyEntry(k)])
  /\ facet_fields = Obj(EmptyMap)
  /\ fq = Undefined
  /\ envelope = SaneEnvelope
  /\ Constructed

\* any envelope; documents only where response.docs is there
InitSuccess ==
  /\ envelope \in Envelopes
  /\ docs \in IF Get(envelope.response, "docs") = Section
              THEN {<<>>, <<[id |-> "a"]>>} ELSE {<<>>}
  /\ highlighting = Undefined
  /\ facet_fields = Obj(EmptyMap)
  /\ fq = Undefined
  /\ Constructed

----------------------------------------------------------------------------
(* Operations *)

SetIx(ix) ==
  /\ doc_id2index' = ix.id2index
  /\ doc_index2id' = ix.index2id
  /\ scans' = ix.scans

GetDoc(doc_id) ==
  LET r == get_doc(Ix, doc_id)
  IN /\ op' = "get_doc"
     /\ args' = [doc_id |-> doc_id, field_id |-> Null, item |-> Null]
     /\ ret' = r.ret
     /\ SetIx(r.ix)
     /\ hilite_obj' = Null
     /\ UNCHANGED <<raw, success_cache, doc_index2_id, doc_label_maps, decodes>>

GetDocField(doc_id, field_id) ==
  LET r == get_doc_field(Ix, doc_id, field_id)
  IN /\ op' = "get_doc_field"
     /\ args' = [doc_id |-> doc_id, field_id |-> field_id, item |-> Null]
     /\ ret' = r.ret
     /\ SetIx(r.ix)
     /\ hilite_obj' = Null
     /\ UNCHANGED <<raw, success_cache, doc_index2_id, doc_label_maps, decodes>>

GetDocHighlight(doc_id, field_id, item) ==
  LET r == get_doc_highlight(Ix, doc_id, field_id, item)
  IN /\ op' = "get_doc_highlight"
     /\ args' = [doc_id |-> doc_id, field_id |-> field_id, item |-> item]
     /\ ret' = r.ret
     /\ SetIx(r.ix)
     /\ hilite_obj' = r.h
     /\ UNCHANGED <<raw, success_cache, doc_index2_id, doc_label_maps, decodes>>

CallGetDoc == \E k \in DocKeys : GetDoc(k)

CallGetDocField == \E k \in DocKeys, f \in Fields : GetDocField(k, f)

CallGetDocHighlight ==
  \E k \in DocKeys, f \in Fields, item \in KeyItems : GetDocHighlight(k, f, item)

GetDocLabel(doc_id, field_id, item_id) ==
  LET r == get_doc_label(St, doc_id, field_id, item_id)
  IN /\ op' = "get_doc_label"
     /\ args' = [doc_id |-> doc_id, field_id |-> field_id, item |-> item_id]
     /\ ret' = r.ret
     /\ SetIx(r.st.ix)
     /\ doc_label_maps' = r.st.maps
     /\ decodes' = r.st.decodes
     /\ hilite_obj' = Null
     /\ UNCHANGED <<raw, success_cache, doc_index2_id>>

CallGetDocLabel == \E k \in DocKeys, f \in Fields : GetDocLabel(k, f, "a")

Next ==
  \/ CallGetDoc
  \/ CallGetDocField
  \/ CallGetDocLabel
  \/ CallGetDocHighlight

Spec == Init /\ [][Next]_vars

\* the calls of the label runs: by position, by identifier, and a miss
LabelKeys == {"0", "1", "a", "zz"}

LabelGetDoc == \E k \in LabelKeys : GetDoc(k)

LabelGetDocLabel == \E k \in LabelKeys, i \in LabelItems : GetDocLabel(k, "f", i)

LabelGetDocHighlight == \E k \in {"0", "a"} : GetDocHighlight(k, "f", <<"a">>)

NextLabel ==
  \/ LabelGetDoc
  \/ LabelGetDocLabel
  \/ LabelGetDocHighlight

SpecLabel == InitLabel /\ [][NextLabel]_vars

\* the highlight runs: the index built or not, the document by id or position
HighlightGetDoc == GetDoc("a")

HighlightGetDocHighlight ==
  \E k \in {"a", "0"}, item \in HlItems : GetDocHighlight(k, "f", item)

NextHighlight ==
  \/ HighlightGetDoc
  \/ HighlightGetDocHighlight

SpecHighlight == InitHighlight /\ [][NextHighlight]_vars

NoArgs == [doc_id |-> Null, field_id |-> Null, item |-> Null]

QueryFilters ==
  /\ op' = "query_filters"
  /\ args' = NoArgs
  /\ ret' = query_filters
  /\ UNCHANGED <<raw, success_cache, doc_id2index, doc_index2_id, doc_index2id, doc_label_maps,
                 hilite_obj, scans, decodes>>

SpecFilters == InitFilters /\ [][QueryFilters]_vars

FacetCounts ==
  /\ op' = "facet_counts"
  /\ args' = NoArgs
  /\ ret' = facet_counts
  /\ UNCHANGED <<raw, success_cache, doc_id2index, doc_index2_id, doc_index2id, doc_label_maps,
                 hilite_obj, scans, decodes>>

SpecFacets == InitFacets /\ [][FacetCounts]_vars

\* the calls of the cache runs: both positions, an identifier, and a miss
CacheKeys == {"0", "1", "a", "zz"}

CacheGetDoc == \E k \in CacheKeys : GetDoc(k)

CacheGetDocLabel == \E k \in CacheKeys, i \in LabelItems : GetDocLabel(k, "f", i)

CacheGetDocHighlight == \E k \in {"0", "a"} : GetDocHighlight(k, "f", <<"a">>)

NextCache ==
  \/ CacheGetDoc
  \/ CacheGetDocLabel
  \/ CacheGetDocHighlight

SpecCache == InitCache /\ [][NextCache]_vars

Success ==
  LET r == success(success_cache)
  IN /\ op' = "success"
     /\ args' = NoArgs
     /\ ret' = r.ret
     /\ success_cache' = r.cache
     /\ UNCHANGED <<raw, doc_id2index, doc_index2_id, doc_index2id, doc_label_maps,
                    hilite_obj, scans, decodes>>

SuccessGetDoc == \E k \in {"0", "a"} : GetDoc(k)

NextSuccess ==
  \/ Success
  \/ SuccessGetDoc

SpecSuccess == InitSuccess /\ [][NextSuccess]_vars

----------------------------------------------------------------------------
(* Reference notions used by the claims *)

IsPosition(key) == \E i \in 0 .. Len(docs) - 1 : PosStr(i) = key

PositionOf(key) == CHOOSE i \in 0 .. Len(docs) - 1 : PosStr(i) = key

IdOfPosition(key) == docs[PositionOf(key) + 1].id

HasIdDoc(key) == \E i \in 1 .. Len(docs) : docs[i].id = key

\* the highlighting section has no entry for the document named by key
NoHighlightEntry(key) ==
  /\ ~Has(highlighting, key)
  /\ ~(IsPosition(key) /\ Has(highlighting, IdOfPosition(key)))

IsCall(o) == op = o

----------------------------------------------------------------------------
(* C1: get_doc_highlight returns null, and raises nothing, whenever the     *)
(* highlighting section has no entry for the document: the key is not a key *)
(* of the section and not the position of a document whose id is one.       *)
C1_NoEntryGivesNull ==
  (IsCall("get_doc_highlight") /\ NoHighlightEntry(args.doc_id)) => ret = Null

(* C2: for a valid position p that is not itself a key of the highlighting  *)
(* section, get_doc_highlight(p, ...) raises nothing and uses the entry     *)
(* keyed by the id of the document at position p.                           *)
C2_PositionUsesOwnEntry ==
  (/\ IsCall("get_doc_highlight")
   /\ IsPosition(args.doc_id)
   /\ ~Has(highlighting, args.doc_id))
  => /\ ret.t # "throw"
     /\ hilite_obj = IF Has(highlighting, IdOfPosition(args.doc_id))
                     THEN highlighting.m[IdOfPosition(args.doc_id)]
                     ELSE Null

IndexWhole ==
  \/ /\ ~Truthy(doc_id2index)
     /\ ~Truthy(doc_index2id)
     /\ scans = 0
  \/ /\ doc_id2index.t = "obj"
     /\ doc_index2id.t = "obj"
     /\ scans = 1
     /\ DOMAIN doc_id2index.m = {docs[i].id : i \in 1 .. Len(docs)}
     /\ \A d \in DOMAIN doc_id2index.m :
          /\ doc_id2index.m[d] \in 0 .. Len(docs) - 1
          /\ docs[doc_id2index.m[d] + 1].id = d
     /\ DOMAIN doc_index2id.m = {PosStr(i) : i \in 0 .. Len(docs) - 1}
     /\ \A i \in 0 .. Len(docs) - 1 : doc_index2id.m[PosStr(i)] = docs[i + 1].id

\* a step that scans is a call whose key is not a valid position; a step from
\* a built index leaves both maps as they are
IndexStep ==
  /\ scans' # scans =>
       /\ op' \in {"get_doc", "get_doc_field", "get_doc_label"}
       /\ ~IsPosition(args'.doc_id)
       /\ scans' = scans + 1
  /\ Truthy(doc_id2index) =>
       /\ doc_id2index' = doc_id2index
       /\ doc_index2id' = doc_index2id

(* C4: the document index is non-incremental: in every reachable state both *)
(* maps are absent or both are present and cover every document; the scan   *)
(* runs at most once, only in a get_doc call whose key is not a valid       *)
(* position, and a built index is never changed again.                      *)
C4_IndexNonIncremental == [](IndexWhole) /\ [][IndexStep]_vars

\* a built index over a full document list, used by a later positional call
C4_Witness ==
  /\ scans = 1
  /\ Len(docs) = MaxDocs
  /\ IsCall("get_doc")
  /\ IsPosition(args.doc_id)

----------------------------------------------------------------------------
(* Reference notions for labels *)

\* the document a key denotes: by position first, then by identifier
KeyDenotesDoc(key) == IsPosition(key) \/ HasIdDoc(key)

DocPosOf(key) ==
  IF IsPosition(key) THEN PositionOf(key)
  ELSE (CHOOSE i \in 1 .. Len(docs) :
          docs[i].id = key /\ \A j \in i + 1 .. Len(docs) : docs[j].id # key) - 1

MapFieldsOf(field_id) ==
  <<field_id \o "_map", field_id \o "_closure_map", field_id \o "_list_map">>

IsPresent(pos, fld) == fld \in DOMAIN docs[pos + 1]

IsDecodable(pos, fld) ==
  /\ IsPresent(pos, fld)
  /\ docs[pos + 1][fld].t = "text"
  /\ JSONparse(docs[pos + 1][fld].c).ok

DecodedMap(pos, fld) == JSONparse(docs[pos + 1][fld].c).v

MapHasItem(pos, fld, item) ==
  IsDecodable(pos, fld) /\ item \in DOMAIN DecodedMap(pos, fld)

\* the label of item in the first of the three maps that contains it
FirstMapLabel(pos, field_id, item) ==
  LET mf == MapFieldsOf(field_id)
      hits == {k \in 1 .. 3 : MapHasItem(pos, mf[k], item)}
  IN IF hits = {} THEN Null
     ELSE LET k == CHOOSE k \in hits : \A j \in hits : k <= j
          IN Str(DecodedMap(pos, mf[k])[item])

LabelIsString(pos, field_id) ==
  /\ IsPresent(pos, field_id \o "_label")
  /\ docs[pos + 1][field_id \o "_label"].t = "string"

LabelIsList(pos, field_id) ==
  /\ IsPresent(pos, field_id \o "_label")
  /\ docs[pos + 1][field_id \o "_label"].t = "array"

OneForOne(pos, field_id) ==
  /\ LabelIsList(pos, field_id)
  /\ Len(docs[pos + 1][field_id \o "_label"].v) = 1
  /\ docs[pos + 1][field_id].t = "array"
  /\ Len(docs[pos + 1][field_id].v) = 1

\* a get_doc_label call on an existing document with the field, where neither
\* _label shortcut applies
NoShortcutCall ==
  /\ IsCall("get_doc_label")
  /\ KeyDenotesDoc(args.doc_id)
  /\ IsPresent(DocPosOf(args.doc_id), args.field_id)
  /\ ~LabelIsString(DocPosOf(args.doc_id), args.field_id)
  /\ ~OneForOne(DocPosOf(args.doc_id), args.field_id)

AllMapsDecodable(pos, field_id) ==
  \A k \in 1 .. 3 :
    IsPresent(pos, MapFieldsOf(field_id)[k]) => IsDecodable(pos, MapFieldsOf(field_id)[k])

\* the first of the three map fields that the document holds is not valid JSON
FirstPresentMapMalformed(pos, field_id) ==
  LET mf == MapFieldsOf(field_id)
  IN \E k \in 1 .. 3 :
       /\ IsPresent(pos, mf[k])
       /\ ~IsDecodable(pos, mf[k])
       /\ \A j \in 1 .. k - 1 : ~IsPresent(pos, mf[j])

(* C5: on an existing document with the field, when the _label value is not *)
(* a single string and the one-label-for-one-identifier case does not apply *)
(* (an absent _label included), get_doc_label returns the item's label from *)
(* the first of _map, _closure_map, _list_map that contains the item, and   *)
(* null only when none does.  (Stated for documents whose maps all decode.) *)
C5_ProbesMapsWithoutShortcut ==
  (NoShortcutCall /\ AllMapsDecodable(DocPosOf(args.doc_id), args.field_id))
  => ret = FirstMapLabel(DocPosOf(args.doc_id), args.field_id, args.item)

\* what the code does: the maps are probed when the _label value is a list
C5_ProbesMapsUnderLabelList ==
  (/\ NoShortcutCall
   /\ LabelIsList(DocPosOf(args.doc_id), args.field_id)
   /\ AllMapsDecodable(DocPosOf(args.doc_id), args.field_id))
  => ret = FirstMapLabel(DocPosOf(args.doc_id), args.field_id, args.item)

(* C6: over any sequence of calls the JSON text of a (document, map field)  *)
(* pair is decoded at most once, whether the document is addressed by its   *)
(* position or by its identifier.                                           *)
C6_DecodedOncePerDocument == \A k \in DOMAIN decodes : decodes[k] <= 1

\* what the code does: at most one decode per key the document is called by
C6_DecodedOncePerKey ==
  \A k \in DOMAIN decodes :
    decodes[k] <= Cardinality({key \in DOMAIN doc_label_maps :
                                 KeyDenotesDoc(key) /\ DocPosOf(key) = k[1]})

(* C7: when neither _label shortcut applies and the first map field to be   *)
(* probed holds a present but malformed JSON text, get_doc_label ends in a  *)
(* decode failure raised to the caller, on the first call and on every      *)
(* later one; it returns neither null nor a label.                          *)
C7_MalformedMapRaises ==
  (NoShortcutCall /\ FirstPresentMapMalformed(DocPosOf(args.doc_id), args.field_id))
  => ret = Throw("SyntaxError")

\* what the code does: a non-empty malformed text, reached under a label list
C7_NonEmptyMalformedRaises ==
  (/\ NoShortcutCall
   /\ LabelIsList(DocPosOf(args.doc_id), args.field_id)
   /\ FirstPresentMapMalformed(DocPosOf(args.doc_id), args.field_id)
   /\ \A k \in 1 .. 3 :
        IsPresent(DocPosOf(args.doc_id), MapFieldsOf(args.field_id)[k])
        => docs[DocPosOf(args.doc_id) + 1][MapFieldsOf(args.field_id)[k]].c # <<>>)
  => ret = Throw("SyntaxError")

----------------------------------------------------------------------------
(* Reference notions for highlights *)

\* character i of s lies in a <...> span: a "<" at or before it with no ">"
\* in between, and a ">" at or after it
InTag(s, i) ==
  /\ \E j \in 1 .. i : s[j] = "<" /\ \A m \in j .. i - 1 : s[m] # ">"
  /\ \E k \in i .. Len(s) : s[k] = ">"

\* s without its <...> spans
TagFree(s) ==
  LET keep == {i \in 1 .. Len(s) : ~InTag(s, i)}
  IN [n \in 1 .. Cardinality(keep) |->
        s[CHOOSE i \in keep : Cardinality({j \in keep : j <= i}) = n]]

CandidateKeys(field_id) ==
  <<field_id \o "_label_searchable", field_id \o "_label",
    field_id \o "_searchable", field_id>>

\* the first fragment, tags intact, of the first candidate key present in h
\* whose tag-free text is item; null without such a key or fragment
FirstMatchingFragment(h, field_id, item) ==
  LET ck == CandidateKeys(field_id)
      present == {k \in 1 .. 4 : ck[k] \in DOMAIN h.m}
  IN IF present = {} THEN Null
     ELSE LET list == h.m[ck[CHOOSE k \in present : \A j \in present : k <= j]]
              hits == {i \in 1 .. Len(list) : TagFree(list[i]) = item}
          IN IF hits = {} THEN Null
             ELSE Txt(list[CHOOSE i \in hits : \A j \in hits : i <= j])

(* C8: once a highlighting entry is resolved for the document,              *)
(* get_doc_highlight takes the fragment list of the first key present among *)
(* field_label_searchable, field_label, field_searchable, field, and        *)
(* returns the first fragment of that list, tags intact, whose text without *)
(* its <...> spans equals item; null when no fragment matches or none of    *)
(* the four keys is present.                                                *)
C8_FirstMatchingFragment ==
  (IsCall("get_doc_highlight") /\ ret.t # "throw" /\ Truthy(hilite_obj))
  => ret = FirstMatchingFragment(hilite_obj, args.field_id, args.item)

\* the second fragment of the list is returned with its tags: the first one
\* does not read as item, and a later candidate key is present as well
C8_Witness ==
  /\ IsCall("get_doc_highlight")
  /\ Truthy(hilite_obj)
  /\ ret.t = "text"
  /\ ret.c # args.item
  /\ "f" \in DOMAIN hilite_obj.m
  /\ Len(hilite_obj.m["f"]) = 2
  /\ ret.c = hilite_obj.m["f"][2]
  /\ TagFree(hilite_obj.m["f"][1]) # args.item

\* an earlier candidate key decides, although a later one holds a match
C8_WitnessProbeOrder ==
  /\ IsCall("get_doc_highlight")
  /\ Truthy(hilite_obj)
  /\ "f_label" \in DOMAIN hilite_obj.m
  /\ "f" \in DOMAIN hilite_obj.m
  /\ \E i \in 1 .. Len(hilite_obj.m["f"]) : TagFree(hilite_obj.m["f"][i]) = args.item
  /\ ret = Null

----------------------------------------------------------------------------
(* Reference notions for filters *)

HasColon(e) == \E i \in 1 .. Len(e) : e[i] = ":"

FirstColon(e) == CHOOSE i \in 1 .. Len(e) : e[i] = ":" /\ \A j \in 1 .. i - 1 : e[j] # ":"

\* field, value and polarity of one fq entry
Decoded(e) ==
  LET f0 == IF HasColon(e) THEN SubSeq(e, 1, FirstColon(e) - 1) ELSE e
      v0 == IF HasColon(e) THEN SubSeq(e, FirstColon(e) + 1, Len(e)) ELSE <<>>
      signed == Len(f0) >= 1 /\ f0[1] \in {"-", "+"}
      quoted == Len(v0) >= 2 /\ v0[1] = "\"" /\ v0[Len(v0)] = "\""
  IN [field |-> IF signed THEN Tail(f0) ELSE f0,
      value |-> IF quoted THEN SubSeq(v0, 2, Len(v0) - 1) ELSE v0,
      polarity |-> ~(Len(f0) >= 1 /\ f0[1] = "-")]

\* the mapping the entries decode to: the last entry of a pair gives its polarity
DecodedFilters(entries) ==
  LET d == [i \in 1 .. Len(entries) |-> Decoded(entries[i])]
      fields == {d[i].field : i \in 1 .. Len(entries)}
      last(f, v) == CHOOSE i \in 1 .. Len(entries) :
                      /\ d[i].field = f /\ d[i].value = v
                      /\ \A j \in i + 1 .. Len(entries) : ~(d[j].field = f /\ d[j].value = v)
  IN Obj([f \in fields |->
            [v \in {d[i].value : i \in {j \in 1 .. Len(entries) : d[j].field = f}} |->
               d[last(f, v)].polarity]])

\* fq as a list of entries: none when absent, one for a bare string
FqEntries == IF fq.t = "text" THEN <<fq.c>> ELSE IF fq.t = "array" THEN fq.v ELSE <<>>

(* C9 as claimed: query_filters equals the reference decoder for every fq   *)
(* value, absent, one string or a list of strings.                          *)
C9_FiltersAsClaimed == IsCall("query_filters") => ret = DecodedFilters(FqEntries)

(* C9: query_filters equals the reference decoder for every fq value that   *)
(* is absent, a non-empty string or a list of strings: split at the first   *)
(* colon only, leading "-" or "+" removed with polarity false only for "-", *)
(* one outer pair of double quotes stripped, the last entry of a (field,    *)
(* value) pair giving its polarity.  The empty string decodes to the empty  *)
(* result, as an absent fq does.                                            *)
C9_FiltersDecoded ==
  IsCall("query_filters") =>
    ret = IF fq = Txt(<<>>) THEN Obj(EmptyMap) ELSE DecodedFilters(FqEntries)

\* two entries of a list decode to the same pair with opposite polarity, the
\* value keeps its inner colon and loses its quotes
C9_Witness ==
  /\ IsCall("query_filters")
  /\ fq.t = "array"
  /\ Len(fq.v) = 2
  /\ Decoded(fq.v[1]).field = Decoded(fq.v[2]).field
  /\ Decoded(fq.v[1]).value = Decoded(fq.v[2]).value
  /\ Decoded(fq.v[1]).polarity /\ ~Decoded(fq.v[2]).polarity
  /\ Decoded(fq.v[2]).value = <<"a", ":", "a">>
  /\ ret.m[<<"a">>][<<"a", ":", "a">>] = FALSE

----------------------------------------------------------------------------
(* Reference notions for facets *)

IsFlat(items) ==
  /\ Len(items) % 2 = 0
  /\ \A i \in 1 .. Len(items) : items[i].t = IF i % 2 = 1 THEN "text" ELSE "number"

IsNested(items) ==
  \A i \in 1 .. Len(items) :
    /\ items[i].t = "array"
    /\ Len(items[i].v) = 2
    /\ items[i].v[1].t = "text"
    /\ items[i].v[2].t = "number"

\* value -> count from a list of names and a list of counts, the last
\* occurrence of a value giving its count
CountsOf(names, counts) ==
  [n \in {names[i] : i \in 1 .. Len(names)} |->
     counts[CHOOSE i \in 1 .. Len(names) :
              names[i] = n /\ \A j \in i + 1 .. Len(names) : names[j] # n]]

FlatCounts(items) ==
  CountsOf([i \in 1 .. Len(items) \div 2 |-> items[2 * i - 1].c],
           [i \in 1 .. Len(items) \div 2 |-> items[2 * i]])

NestedCounts(items) ==
  CountsOf([i \in 1 .. Len(items) |-> items[i].v[1].c],
           [i \in 1 .. Len(items) |-> items[i].v[2]])

(* C10 as claimed: a facet field whose value is a flat sequence value,      *)
(* count, value, count, ... is mapped to value -> the count that follows.   *)
C10_FlatAsClaimed ==
  IsCall("facet_counts") =>
    \A ff \in DOMAIN facet_fields.m :
      IsFlat(facet_fields.m[ff]) => ret.m[ff] = Obj(FlatCounts(facet_fields.m[ff]))

(* C10: a facet field whose value is a sequence of [value, count] pairs is  *)
(* mapped by facet_counts to value -> count, the last occurrence of a       *)
(* duplicated value giving its count: {go_aspect: [[bp, 120], [mf, 80]]}    *)
(* yields {go_aspect: {bp: 120, mf: 80}}.                                   *)
C10_NestedPairsFlattened ==
  IsCall("facet_counts") =>
    \A ff \in DOMAIN facet_fields.m :
      IsNested(facet_fields.m[ff]) => ret.m[ff] = Obj(NestedCounts(facet_fields.m[ff]))

\* a field of two pairs with the same value and different counts
C10_Witness ==
  /\ IsCall("facet_counts")
  /\ "go_aspect" \in DOMAIN facet_fields.m
  /\ LET items == facet_fields.m["go_aspect"]
     IN /\ Len(items) = 2
        /\ IsNested(items)
        /\ items[1].v[1] = items[2].v[1]
        /\ items[1].v[2] # items[2].v[2]
        /\ ret.m["go_aspect"].m[items[1].v[1].c] = items[2].v[2]

----------------------------------------------------------------------------
(* Reference notions for success *)

\* section sec of the raw response has key k with a value that is not null
\* (a null section counts as not present)
IsThere(sec, k) ==
  /\ envelope[sec].t = "obj"
  /\ k \in DOMAIN envelope[sec].m
  /\ envelope[sec].m[k].t # "null"

\* key k of section sec has a value, null included
IsDefined(sec, k) == envelope[sec].t = "obj" /\ k \in DOMAIN envelope[sec].m

Verdict ==
  /\ IsDefined("responseHeader", "status")
  /\ envelope.responseHeader.m["status"] = Num(0)
  /\ IsThere("responseHeader", "params")
  /\ IsDefined("response", "numFound")
  /\ IsDefined("response", "start")
  /\ IsDefined("response", "maxScore")
  /\ IsThere("response", "docs")
  /\ IsThere("facet_counts", "facet_fields")

VerdictKept ==
  /\ IsCall("success") => ret = Bool(Verdict)
  /\ success_cache # Null => success_cache = Bool(Verdict)

VerdictStep == success_cache # Null => success_cache' = success_cache

(* C11: every call of success(), at any point of any sequence of            *)
(* operations, returns the same boolean, and it is true exactly when        *)
(* responseHeader.status is 0, responseHeader.params is present,            *)
(* response.numFound, start and maxScore are defined, response.docs is      *)
(* present and facet_counts.facet_fields is present; once stored, the       *)
(* verdict never changes.                                                   *)
C11_SuccessIsTheVerdict == [](VerdictKept) /\ [][VerdictStep]_vars

\* success() answers true from its cache after a get_doc call built the index
C11_Witness ==
  /\ IsCall("success")
  /\ ret = Bool(TRUE)
  /\ scans = 1
  /\ Len(docs) = 1

\* success() answers false although status is 0: a later section is missing
C11_WitnessFalse ==
  /\ IsCall("success")
  /\ ret = Bool(FALSE)
  /\ IsDefined("responseHeader", "status")
  /\ envelope.responseHeader.m["status"] = Num(0)
  /\ IsThere("responseHeader", "params")
  /\ scans = 1

----------------------------------------------------------------------------
(* Reference notions for the label-map cache *)

\* every stored entry is the decoding of that map field of the document its
\* key denotes
EntriesAreDecodings ==
  \A ck \in DOMAIN doc_label_maps :
    \A mf \in DOMAIN doc_label_maps[ck] :
      /\ KeyDenotesDoc(ck)
      /\ IsDecodable(DocPosOf(ck), mf)
      /\ doc_label_maps[ck][mf] = DecodedMap(DocPosOf(ck), mf)

\* the outcome of the same call on an object whose cache is empty
Uncached(doc_id, field_id, item_id) ==
  get_doc_label([ix |-> Ix, maps |-> EmptyMap, decodes |-> EmptyMap],
                doc_id, field_id, item_id).ret

(* C12: the label-map cache is transparent.  After any sequence of get_doc, *)
(* get_doc_label and get_doc_highlight calls, with positions and            *)
(* identifiers mixed and identifiers that read as positions, every cache    *)
(* entry under (doc_key, map_field) is the decoding of that map field of    *)
(* the document get_doc(doc_key) returns, and each get_doc_label call       *)
(* returns what a resolver without a cache returns for the same arguments.  *)
C12_CacheTransparent ==
  /\ EntriesAreDecodings
  /\ IsCall("get_doc_label") => ret = Uncached(args.doc_id, args.field_id, args.item)

\* the second document, called by its position "1" while the first one has
\* the identifier "1", answers from its own map; both are in the cache
C12_Witness ==
  /\ IsCall("get_doc_label")
  /\ docs[1].id = "1"
  /\ args.doc_id = "1"
  /\ ret = Str("N")
  /\ {"0", "1"} \subseteq DOMAIN doc_label_maps
  /\ "f_map" \in DOMAIN doc_label_maps["0"]
  /\ "f_map" \in DOMAIN doc_label_maps["1"]
  /\ doc_label_maps["0"]["f_map"] # doc_label_maps["1"]["f_map"]

====
